---------------------------- MODULE Spec2Model ----------------------------
(***************************************************************************)
(* State-machine model of the networking core of the Matrix RPG prototype: *)
(* the client plugin (src/src/networking/client.rs), the server plugin     *)
(* (src/src/networking/server.rs), the shared movement rule                *)
(* (src/src/networking/mod.rs), the protocol (protocol.rs) and the player  *)
(* bundle (src/src/player.rs).  Every system the plugins register is one   *)
(* action; the frame schedule of each app (PreUpdate, FixedPreUpdate,      *)
(* FixedUpdate, Update, PostUpdate) is a program counter.                  *)
(***************************************************************************)
EXTENDS Integers, Sequences, FiniteSets, TLC

\* ------------------------------------------------------------------ bounds
NumClients == 2          \* client apps that may run against the server
MaxTick == 2             \* fixed ticks simulated in the open scenario
PeerTicks == 1           \* fixed ticks simulated in the scenario with several clients
MaxLead == 2             \* ticks a client may run ahead of the server
GridTicks == 2           \* half-width, in steps, of the positions the rule is tried on
E2ETicks == 10           \* the end-to-end scenario's consecutive move-up ticks
LossTicks == 3           \* N of the loss scenario
MaxFrames == 2           \* frames each app of the listen-server run executes
MaxPackets == 2          \* packets each app of the listen-server run sends

\* --------------------------------------------------------------- constants
MOVE_SPEED == 10

ClientIds == 1..NumClients
NoEntity == 0
NoClient == 0

\* ---------------------------------------------------------------- protocol
\* protocol.rs: struct Direction and its is_none
Direction(u, d, l, r) ==
    [kind |-> "Direction", up |-> u, down |-> d, left |-> l, right |-> r]

is_none(dir) == ~dir.up /\ ~dir.down /\ ~dir.left /\ ~dir.right

\* protocol.rs: enum Inputs { Direction(Direction), Delete, Spawn, None }
Plain(k) == [kind |-> k, up |-> FALSE, down |-> FALSE, left |-> FALSE, right |-> FALSE]

Directions == {Direction(u, d, l, r) : u \in BOOLEAN, d \in BOOLEAN, l \in BOOLEAN, r \in BOOLEAN}

Inputs == Directions \cup {Plain("Delete"), Plain("Spawn"), Plain("None")}

\* PlayerPosition(Vec2): exactly representable coordinates, kept as integers
Vec2(px, py) == [x |-> px, y |-> py]

ZERO == Vec2(0, 0)

\* ---------------------------------------------------------- movement rule
\* the rule with a Spawn input taken as a return to the origin
shared_movement_behaviour_spawn_resets(position, input) ==
    IF input.kind = "Spawn" THEN Vec2(0, 0)
    ELSE LET p1 == IF input.kind = "Direction" /\ input.up
                   THEN Vec2(position.x, position.y + MOVE_SPEED) ELSE position
             p2 == IF input.kind = "Direction" /\ input.down
                   THEN Vec2(p1.x, p1.y - MOVE_SPEED) ELSE p1
             p3 == IF input.kind = "Direction" /\ input.left
                   THEN Vec2(p2.x - MOVE_SPEED, p2.y) ELSE p2
         IN IF input.kind = "Direction" /\ input.right
            THEN Vec2(p3.x + MOVE_SPEED, p3.y) ELSE p3

\* the rule with the sign of `down` wrong
shared_movement_behaviour_down_adds(position, input) ==
    IF input.kind = "Direction"
    THEN LET p1 == IF input.up THEN [position EXCEPT !.y = @ + MOVE_SPEED] ELSE position
             p2 == IF input.down THEN [p1 EXCEPT !.y = @ + MOVE_SPEED] ELSE p1
             p3 == IF input.left THEN [p2 EXCEPT !.x = @ - MOVE_SPEED] ELSE p2
             p4 == IF input.right THEN [p3 EXCEPT !.x = @ + MOVE_SPEED] ELSE p3
         IN p4
    ELSE position

\* mod.rs: shared_movement_behaviour(position, input); the four ifs in order
shared_movement_behaviour(position, input) ==
    IF input.kind = "Direction"
    THEN LET p1 == IF input.up THEN [position EXCEPT !.y = @ + MOVE_SPEED] ELSE position
             p2 == IF input.down THEN [p1 EXCEPT !.y = @ - MOVE_SPEED] ELSE p1
             p3 == IF input.left THEN [p2 EXCEPT !.x = @ - MOVE_SPEED] ELSE p2
             p4 == IF input.right THEN [p3 EXCEPT !.x = @ + MOVE_SPEED] ELSE p3
         IN p4
    ELSE position


\* -------------------------------------------------------------------- state
VARIABLES
    scenario,       \* which run this is: "open", "peers", "e2e", "loss", "keys",
                    \* "handshake", "listen" or "rule"
    settings,       \* the SharedSettings the server app and each client app were built with
    cpc,            \* client app: the schedule the frame is in ("Startup" before init)
    conn,           \* client app: connection state
    metadata,       \* client app: GlobalMetadata.client_id (NoClient = None)
    ctick,          \* client app: tick of the last FixedMain run
    csent,          \* client app: last tick whose input message was sent
    input_buffer,   \* client app: tick -> input given to add_input
    cworld,         \* client app: entities holding PlayerId and PlayerPosition
    button_input,   \* client app: ButtonInput<KeyCode>, the keys held when last read
    innet,          \* link client -> server: ticks of the input messages in flight
    dropped,        \* link client -> server: ticks of the input messages the conditioner dropped
    spawnnet,       \* link client -> server: creation records of replicated client entities
    acts,           \* link server -> client: entity actions (reliable, in order)
    upds,           \* link server -> client: latest PlayerPosition update in flight
    spc,            \* server app: the schedule the frame is in
    stick,          \* server app: tick of the last FixedMain run
    connected,      \* server app: clients with an accepted connection
    disconnections, \* server app: DisconnectEvent contexts not yet read
    insert_events,  \* server app: ComponentInsertEvent<PlayerPosition> not yet read
    sworld,         \* server app: entities holding PlayerId and PlayerPosition
    despawns,       \* server app: despawned entities still to be announced, per peer
    applied,        \* server app: per client, ticks whose input movement applied to an entity
    rule,           \* the movement rule tried on one position and one input
    listen          \* listen-server run: the two apps, their threads and the channel pair

vars == <<scenario, settings, cpc, conn, metadata, ctick, csent, input_buffer, cworld, button_input, innet,
          dropped, spawnnet, acts, upds, spc, stick, connected, disconnections,
          insert_events, sworld, despawns, applied, rule, listen>>

clientVars == <<cpc, conn, metadata, ctick, csent, input_buffer, cworld, button_input>>
linkVars == <<innet, dropped, spawnnet, acts, upds>>
serverVars == <<spc, stick, connected, disconnections, insert_events, sworld, despawns, applied>>

\* the ticks a run simulates
Horizon ==
    CASE scenario = "e2e" -> E2ETicks + MaxLead
      [] scenario = "loss" -> LossTicks
      [] scenario = "peers" -> PeerTicks
      [] OTHER -> MaxTick

\* the clients whose app is started in a run
Running == IF scenario = "peers" THEN ClientIds ELSE {1}

\* the script of the scenario with several clients: a client starts once its
\* predecessor is connected, and client 1 is the one whose connection may end
MayStart(c) == scenario = "peers" /\ c > 1 => conn[c - 1] = "Connected"
MayLeave(c) == scenario = "peers" => c = 1

\* LinkConditionerConfig.incoming_loss is 0.05 in both plugins; the end-to-end
\* scenario is the one with zero simulated loss
Lossy == scenario \in {"open", "loss", "keys"}

NoInput == Plain("Absent")
NoMsg == [tick |-> -1, vals |-> <<>>]

MaxOf(S) == IF S = {} THEN 0 ELSE CHOOSE m \in S : \A n \in S : n <= m

\* a fresh entity handle of a world
NewEntity(world) == MaxOf({en.e : en \in world}) + 1

\* NetworkTarget: All, AllExcept(ids), Only(ids), resolved over a set of peers
All == [mode |-> "All", ids |-> {}]
AllExcept(ids) == [mode |-> "AllExcept", ids |-> ids]
Only(ids) == [mode |-> "Only", ids |-> ids]
NoTarget == [mode |-> "None", ids |-> {}]

Resolve(target, peers) ==
    CASE target.mode = "All" -> peers
      [] target.mode = "AllExcept" -> peers \ target.ids
      [] target.mode = "Only" -> peers \cap target.ids
      [] OTHER -> {}


\* Replicate as the two call sites build it; present = FALSE is "no Replicate component"
Replicate(replication, prediction, interpolation) ==
    [present |-> TRUE, replication_target |-> replication,
     prediction_target |-> prediction, interpolation_target |-> interpolation]

NoReplicate ==
    [present |-> FALSE, replication_target |-> NoTarget,
     prediction_target |-> NoTarget, interpolation_target |-> NoTarget]

EmptyHistory == [t \in {} |-> ZERO]

\* player.rs: PlayerBundle::new(id, position); `..default()` leaves replication_target All
PlayerBundle(id, position) ==
    [id |-> id, position |-> position,
     replicate |-> Replicate(All, Only({id}), AllExcept({id}))]

\* a client entity: the bundle's components and the prediction bookkeeping around them
\*   role       Predicted | Confirmed | Interpolated
\*   confirmed  (Predicted, Interpolated) handle of the Confirmed entity, NoEntity before
\*   remote     (Confirmed) the server's handle; tick: the tick of its value
\*   history    (Predicted) tick -> predicted PlayerPosition
\*   transform  (Predicted) Transform.translation as player_movement last wrote it
\*   pre        ShouldBePredicted was added by the local spawn
ClientEntity(e, role, bundle, confirmed, remote, tick, pre) ==
    [e |-> e, role |-> role, id |-> bundle.id, position |-> bundle.position,
     replicate |-> bundle.replicate, confirmed |-> confirmed, remote |-> remote,
     tick |-> tick, history |-> EmptyHistory, transform |-> ZERO, pre |-> pre]

Predicted(world) == {en \in world : en.role = "Predicted"}
Confirmed(world) == {en \in world : en.role = "Confirmed"}
Interpolated(world) == {en \in world : en.role = "Interpolated"}

\* ---------------------------------------------------------------------- Init
\* mod.rs: SharedSettings
SharedSettings(protocol_id, private_key) ==
    [protocol_id |-> protocol_id, private_key |-> private_key]

\* the settings a run may be built with: two protocol ids and two keys
AllSettings == {SharedSettings(protocol_id, private_key) :
                    protocol_id \in 0..1, private_key \in 0..1}

\* main.rs: every app is built from the same settings.ron
SameSettings ==
    [server |-> SharedSettings(1, 1), client |-> [c \in ClientIds |-> SharedSettings(1, 1)]]

\* client.rs: ClientPluginGroup::new, the Authentication of the client
Authentication(client_id, shared_settings) ==
    [client_id |-> client_id,
     private_key |-> shared_settings.private_key,
     protocol_id |-> shared_settings.protocol_id]

\* variant of NetcodeConfig without with_protocol_id: the default protocol id stays
NetcodeConfig_default_protocol(shared_settings) ==
    [protocol_id |-> 0, key |-> shared_settings.private_key]

\* server.rs: ServerPluginGroup::new, the NetcodeConfig of the server
NetcodeConfig(shared_settings) ==
    [protocol_id |-> shared_settings.protocol_id, key |-> shared_settings.private_key]

\* the connect token built from auth opens under config and names its protocol
Accepts(auth, config) ==
    auth.protocol_id = config.protocol_id /\ auth.private_key = config.key

\* the server accepts the connect request of client c
Accepted(c) == Accepts(Authentication(c, settings.client[c]), NetcodeConfig(settings.server))

InitRule ==
    [position |-> ZERO, input |-> Plain("None"), result |-> ZERO, server |-> {}, client |-> {},
     done |-> FALSE]

\* an app of the listen-server run: the thread that runs its loop, the frames it has
\* run, the packets it has sent and the packets it has received
NewApp == [thread |-> "none", frame |-> 0, sent |-> 0, received |-> <<>>]

\* the process before run() is called: no channel holds a packet, no app runs
BeforeRun ==
    [spawned |-> FALSE, from_server |-> <<>>, to_server |-> <<>>,
     client_app |-> NewApp, server_app |-> NewApp]

InitSystem ==
    /\ cpc = [c \in ClientIds |-> "Startup"]
    /\ conn = [c \in ClientIds |-> "Disconnected"]
    /\ metadata = [c \in ClientIds |-> NoClient]
    /\ ctick = [c \in ClientIds |-> 0]
    /\ csent = [c \in ClientIds |-> 0]
    /\ input_buffer = [c \in ClientIds |-> [t \in 1..Horizon |-> NoInput]]
    /\ cworld = [c \in ClientIds |-> {}]
    /\ button_input = [c \in ClientIds |-> {}]
    /\ innet = [c \in ClientIds |-> {}]
    /\ dropped = [c \in ClientIds |-> {}]
    /\ spawnnet = [c \in ClientIds |-> <<>>]
    /\ acts = [c \in ClientIds |-> <<>>]
    /\ upds = [c \in ClientIds |-> NoMsg]
    /\ spc = "PreUpdate"
    /\ stick = 0
    /\ connected = {}
    /\ disconnections = {}
    /\ insert_events = <<>>
    /\ sworld = {}
    /\ despawns = {}
    /\ applied = [c \in ClientIds |-> {}]

Init ==
    /\ scenario = "open"
    /\ InitSystem
    /\ settings = SameSettings
    /\ listen = BeforeRun
    /\ rule = InitRule


\* ------------------------------------------------------------ client: input
KeyCodes == {"KeyW", "ArrowUp", "KeyS", "ArrowDown", "KeyA", "ArrowLeft",
             "KeyD", "ArrowRight", "Space"}

pressed(keypress, key) == key \in keypress

\* variant of buffer_input_value in which the up keys fill the down flag
buffer_input_value_up_is_down(keypress) ==
    LET direction ==
            Direction(pressed(keypress, "KeyS") \/ pressed(keypress, "ArrowDown"),
                      pressed(keypress, "KeyW") \/ pressed(keypress, "ArrowUp"),
                      pressed(keypress, "KeyA") \/ pressed(keypress, "ArrowLeft"),
                      pressed(keypress, "KeyD") \/ pressed(keypress, "ArrowRight"))
    IN IF ~is_none(direction) THEN direction
       ELSE IF pressed(keypress, "Space") THEN Plain("Spawn")
       ELSE Plain("None")

\* variant of buffer_input_value that looks at the spawn key first
buffer_input_value_space_first(keypress) ==
    LET direction ==
            Direction(pressed(keypress, "KeyW") \/ pressed(keypress, "ArrowUp"),
                      pressed(keypress, "KeyS") \/ pressed(keypress, "ArrowDown"),
                      pressed(keypress, "KeyA") \/ pressed(keypress, "ArrowLeft"),
                      pressed(keypress, "KeyD") \/ pressed(keypress, "ArrowRight"))
    IN IF pressed(keypress, "Space") THEN Plain("Spawn")
       ELSE IF ~is_none(direction) THEN direction
       ELSE Plain("None")

\* client.rs: buffer_input, the value it hands to client.add_input
buffer_input_value(keypress) ==
    LET direction ==
            Direction(pressed(keypress, "KeyW") \/ pressed(keypress, "ArrowUp"),
                      pressed(keypress, "KeyS") \/ pressed(keypress, "ArrowDown"),
                      pressed(keypress, "KeyA") \/ pressed(keypress, "ArrowLeft"),
                      pressed(keypress, "KeyD") \/ pressed(keypress, "ArrowRight"))
    IN IF ~is_none(direction) THEN direction
       ELSE IF pressed(keypress, "Space") THEN Plain("Spawn")
       ELSE Plain("None")

\* the keys held during a tick: free in the open scenario, scripted in the others
OpenKeys == {{}, {"KeyD"}, {"Space"}}

DirectionTicks(c) == {t \in 1..Horizon : input_buffer[c][t].kind = "Direction"}

KeyChoices(c) ==
    CASE scenario = "e2e" ->
            IF Predicted(cworld[c]) # {} /\ Cardinality(DirectionTicks(c)) < E2ETicks
            THEN {{"KeyW"}} ELSE {{}}
      [] scenario = "loss" -> IF ctick[c] < LossTicks THEN {{"ArrowRight"}} ELSE {{}}
      [] scenario \in {"peers", "handshake"} -> {{"KeyD"}}
      [] scenario = "keys" ->
            IF \A t \in 1..Horizon : input_buffer[c][t] = NoInput
            THEN SUBSET KeyCodes ELSE {{}}
      [] OTHER -> OpenKeys

\* ------------------------------------------------------- client: prediction
\* protocol.rs: #[sync(full)] PlayerPosition
PlayerPositionSyncMode == "Full"

\* variant of the protocol with PlayerId marked #[sync(full)]
PlayerIdSyncMode_full == "Full"

\* protocol.rs: #[sync(once)] PlayerId
PlayerIdSyncMode == "Once"

\* client.rs: player_movement, the body of its loop for one predicted entity
player_movement_entity(en, input) ==
    [en EXCEPT !.transform = en.position,
               !.position = shared_movement_behaviour(en.position, input)]

\* the prediction history keeps the value the entity has at the end of a tick
Record(en, t) == [en EXCEPT !.history = (t :> en.position) @@ en.history]

\* client.rs: player_movement for the InputEvent of tick t on a world
player_movement_world(world, input, t) ==
    IF PlayerPositionSyncMode # "Full" \/ input = NoInput THEN world
    ELSE {IF en.role = "Predicted"
          THEN Record(player_movement_entity(en, input), t) ELSE en : en \in world}

\* rollback: FixedUpdate run again for the ticks from..to on one predicted entity
RECURSIVE Replay(_, _, _, _)
Replay(en, from, to, buf) ==
    IF from > to THEN en
    ELSE Replay(IF buf[from] = NoInput THEN Record(en, from)
                ELSE Record(player_movement_entity(en, buf[from]), from),
                from + 1, to, buf)

Before(history, t) == [u \in {v \in DOMAIN history : v < t} |-> history[u]]

\* variant of Reconcile that never rolls back
Reconcile_keeps_prediction(en, position, t, now, buf) == en

\* reconciliation of a predicted entity with the confirmed value of tick t
Reconcile(en, position, t, now, buf) ==
    IF t \in DOMAIN en.history /\ en.history[t] = position THEN en
    ELSE Replay([en EXCEPT !.position = position,
                           !.history = (t :> position) @@ Before(en.history, t)],
                t + 1, now, buf)


\* ----------------------------------------------------------- client: frame
\* The apps run their frames independently and meet only on the links, which a frame
\* reads in PreUpdate and writes in PostUpdate: a frame is taken against a fixed state
\* of the other apps, so one app at a time is past PreUpdate.
Quiet == spc = "PreUpdate" /\ \A c \in ClientIds : cpc[c] \in {"Startup", "PreUpdate"}

\* variant of init that calls connect again after a failed attempt
client_init_retries(c) ==
    /\ c \in Running
    /\ MayStart(c)
    /\ cpc[c] = "Startup" \/ conn[c] = "ConnectionRequestTimedOut"
    /\ Quiet
    /\ conn' = [conn EXCEPT ![c] = "Connecting"]
    /\ cpc' = [cpc EXCEPT ![c] = "PreUpdate"]
    /\ UNCHANGED <<scenario, settings, listen, button_input, metadata, ctick, csent, input_buffer,
                   cworld, rule>>
    /\ UNCHANGED linkVars
    /\ UNCHANGED serverVars

\* client.rs: init (Startup): client.connect()
client_init(c) ==
    /\ c \in Running
    /\ MayStart(c)
    /\ cpc[c] = "Startup"
    /\ Quiet
    /\ conn' = [conn EXCEPT ![c] = "Connecting"]
    /\ cpc' = [cpc EXCEPT ![c] = "PreUpdate"]
    /\ UNCHANGED <<scenario, settings, listen, button_input, metadata, ctick, csent, input_buffer, cworld, rule>>
    /\ UNCHANGED linkVars
    /\ UNCHANGED serverVars

\* PreUpdate, receive: the server's acceptance arrives; the client id becomes known
\* and the tick is synchronised to the server's
ClientConnected(c) ==
    /\ cpc[c] = "PreUpdate"
    /\ Quiet
    /\ conn[c] = "Connecting"
    /\ c \in connected
    /\ conn' = [conn EXCEPT ![c] = "Connected"]
    /\ metadata' = [metadata EXCEPT ![c] = c]
    /\ ctick' = [ctick EXCEPT ![c] = stick]
    /\ csent' = [csent EXCEPT ![c] = stick]
    /\ UNCHANGED <<scenario, settings, listen, button_input, cpc, input_buffer, cworld, rule>>
    /\ UNCHANGED linkVars
    /\ UNCHANGED serverVars

\* variant of ConnectTimeout for a configuration without timeouts
ConnectTimeout_disabled(c) ==
    /\ FALSE
    /\ UNCHANGED vars

\* PreUpdate: the connect request of the client has had no response for the time the
\* connect token allows; the client stops sending it
ConnectTimeout(c) ==
    /\ cpc[c] = "PreUpdate"
    /\ Quiet
    /\ conn[c] = "Connecting"
    /\ ~Accepted(c)
    /\ conn' = [conn EXCEPT ![c] = "ConnectionRequestTimedOut"]
    /\ UNCHANGED <<scenario, settings, listen, button_input, cpc, metadata, ctick, csent,
                   input_buffer, cworld, rule>>
    /\ UNCHANGED linkVars
    /\ UNCHANGED serverVars

\* PreUpdate, receive: the client finds its connection gone
ClientDisconnected(c) ==
    /\ cpc[c] = "PreUpdate"
    /\ Quiet
    /\ conn[c] = "Connected"
    /\ c \notin connected
    /\ conn' = [conn EXCEPT ![c] = "Disconnected"]
    /\ UNCHANGED <<scenario, settings, listen, button_input, cpc, metadata, ctick, csent, input_buffer, cworld, rule>>
    /\ UNCHANGED linkVars
    /\ UNCHANGED serverVars

ConfirmedBundle(rec) == [id |-> rec.id, position |-> rec.position, replicate |-> NoReplicate]

\* the world after the creation record rec of a server entity is applied at tick now
ApplySpawn(world, rec, now, buf) ==
    LET k == NewEntity(world)
        placeholders == {en \in world : /\ en.e = rec.client_entity
                                         /\ en.role = "Predicted"
                                         /\ en.pre /\ en.confirmed = NoEntity}
        conf == ClientEntity(k, "Confirmed", ConfirmedBundle(rec), NoEntity, rec.e, rec.tick, FALSE)
    IN IF rec.predicted /\ rec.client_entity # NoEntity /\ placeholders # {}
       THEN \* pre-spawned: the placeholder becomes the Predicted entity of the new Confirmed one
            {IF en \in placeholders
             THEN Reconcile([en EXCEPT !.confirmed = k], rec.position, rec.tick, now, buf)
             ELSE en : en \in world} \cup {conf}
       ELSE IF rec.predicted
       THEN world \cup {conf,
                Replay(Record(ClientEntity(k + 1, "Predicted", ConfirmedBundle(rec), k,
                                           NoEntity, 0, FALSE), rec.tick),
                       rec.tick + 1, now, buf)}
       ELSE IF rec.interpolated
       THEN world \cup {conf, ClientEntity(k + 1, "Interpolated", ConfirmedBundle(rec), k,
                                           NoEntity, 0, FALSE)}
       ELSE world \cup {conf}

\* the world after the deletion record of server entity e is applied
ApplyDespawn(world, e) ==
    LET gone == {en.e : en \in {k \in Confirmed(world) : k.remote = e}}
    IN {en \in world : en.e \notin gone /\ en.confirmed \notin gone}

\* PreUpdate, receive: the next entity action of the server
ClientRecvAction(c) ==
    /\ cpc[c] = "PreUpdate"
    /\ Quiet
    /\ conn[c] = "Connected"
    /\ acts[c] # <<>>
    /\ LET rec == Head(acts[c])
       IN cworld' = [cworld EXCEPT ![c] =
                        IF rec.kind = "spawn"
                        THEN ApplySpawn(@, rec, ctick[c], input_buffer[c])
                        ELSE ApplyDespawn(@, rec.e)]
    /\ acts' = [acts EXCEPT ![c] = Tail(@)]
    /\ UNCHANGED <<scenario, settings, listen, button_input, cpc, conn, metadata, ctick, csent, input_buffer, rule>>
    /\ UNCHANGED <<innet, dropped, spawnnet, upds>>
    /\ UNCHANGED serverVars

\* the world after the PlayerPosition update msg is applied at tick now
ApplyUpdate(world, msg, now, buf) ==
    LET fresh == {k \in Confirmed(world) : k.remote \in DOMAIN msg.vals /\ msg.tick > k.tick}
        value(h) == msg.vals[(CHOOSE k \in fresh : k.e = h).remote].position
    IN {CASE en \in fresh ->
                [en EXCEPT !.position = msg.vals[en.remote].position, !.tick = msg.tick]
          [] en.role = "Predicted" /\ en.confirmed \in {k.e : k \in fresh} ->
                Reconcile(en, value(en.confirmed), msg.tick, now, buf)
          [] en.role = "Interpolated" /\ en.confirmed \in {k.e : k \in fresh} ->
                [en EXCEPT !.position = value(en.confirmed)]
          [] OTHER -> en : en \in world}

\* PreUpdate, receive: the PlayerPosition update in flight
ClientRecvUpdate(c) ==
    /\ cpc[c] = "PreUpdate"
    /\ Quiet
    /\ conn[c] = "Connected"
    /\ upds[c] # NoMsg
    /\ cworld' = [cworld EXCEPT ![c] = ApplyUpdate(@, upds[c], ctick[c], input_buffer[c])]
    /\ upds' = [upds EXCEPT ![c] = NoMsg]
    /\ UNCHANGED <<scenario, settings, listen, button_input, cpc, conn, metadata, ctick, csent, input_buffer, rule>>
    /\ UNCHANGED <<innet, dropped, spawnnet, acts>>
    /\ UNCHANGED serverVars

\* client.rs: handle_connection (PreUpdate, after ReceiveFlush); it only spawns a text
handle_connection(c) ==
    /\ cpc[c] = "PreUpdate"
    /\ Quiet
    /\ cpc' = [cpc EXCEPT ![c] = "FixedPreUpdate"]
    /\ UNCHANGED <<scenario, settings, listen, button_input, conn, metadata, ctick, csent, input_buffer, cworld, rule>>
    /\ UNCHANGED linkVars
    /\ UNCHANGED serverVars

\* whether a fixed tick is due in this frame of the client; ticks are simulated while
\* the client is connected, up to the horizon and MaxLead ticks ahead of the server
TickDue(c) ==
    /\ conn[c] = "Connected"
    /\ ctick[c] < Horizon
    /\ ctick[c] - stick < MaxLead

\* client.rs: buffer_input (FixedPreUpdate)
buffer_input(c) ==
    /\ cpc[c] = "FixedPreUpdate"
    /\ TickDue(c)
    /\ \E keypress \in KeyChoices(c) :
          /\ button_input' = [button_input EXCEPT ![c] = keypress]
          /\ input_buffer' = [input_buffer EXCEPT ![c][ctick[c] + 1] =
                                 buffer_input_value(keypress)]
    /\ ctick' = [ctick EXCEPT ![c] = @ + 1]
    /\ cpc' = [cpc EXCEPT ![c] = "FixedUpdate"]
    /\ UNCHANGED <<scenario, settings, listen, conn, metadata, csent, cworld, rule>>
    /\ UNCHANGED linkVars
    /\ UNCHANGED serverVars

\* a frame in which no fixed tick is due
ClientNoTick(c) ==
    /\ cpc[c] = "FixedPreUpdate"
    /\ cpc' = [cpc EXCEPT ![c] = "Update"]
    /\ UNCHANGED <<scenario, settings, listen, button_input, conn, metadata, ctick, csent, input_buffer, cworld, rule>>
    /\ UNCHANGED linkVars
    /\ UNCHANGED serverVars

\* client.rs: player_movement (FixedUpdate)
player_movement(c) ==
    /\ cpc[c] = "FixedUpdate"
    /\ cworld' = [cworld EXCEPT ![c] =
                    player_movement_world(@, input_buffer[c][ctick[c]], ctick[c])]
    /\ cpc' = [cpc EXCEPT ![c] = "Update"]
    /\ UNCHANGED <<scenario, settings, listen, button_input, conn, metadata, ctick, csent, input_buffer, rule>>
    /\ UNCHANGED linkVars
    /\ UNCHANGED serverVars

\* variant of spawn_player_world without ShouldBePredicted
spawn_player_world_not_prepredicted(world, client_id, now) ==
    IF client_id = NoClient THEN world
    ELSE IF \E en \in world : en.id = client_id THEN world
    ELSE world \cup {Record(ClientEntity(NewEntity(world), "Predicted",
                                         PlayerBundle(client_id, ZERO),
                                         NoEntity, NoEntity, 0, FALSE), now)}

\* variant of spawn_player_world without the early return for an existing player
spawn_player_world_always(world, client_id, now) ==
    IF client_id = NoClient THEN world
    ELSE world \cup {Record(ClientEntity(NewEntity(world), "Predicted",
                                         PlayerBundle(client_id, ZERO),
                                         NoEntity, NoEntity, 0, TRUE), now)}

\* variant of spawn_player_world that spawns one step to the right of the origin
spawn_player_world_elsewhere(world, client_id, now) ==
    IF client_id = NoClient THEN world
    ELSE IF \E en \in world : en.id = client_id THEN world
    ELSE world \cup {Record(ClientEntity(NewEntity(world), "Predicted",
                                         PlayerBundle(client_id, Vec2(MOVE_SPEED, 0)),
                                         NoEntity, NoEntity, 0, TRUE), now)}

\* client.rs: spawn_player, the world it leaves
spawn_player_world(world, client_id, now) ==
    IF client_id = NoClient THEN world
    ELSE IF \E en \in world : en.id = client_id THEN world
    ELSE world \cup {Record(ClientEntity(NewEntity(world), "Predicted",
                                         PlayerBundle(client_id, ZERO),
                                         NoEntity, NoEntity, 0, TRUE), now)}

\* client.rs: spawn_player (Update)
spawn_player(c) ==
    /\ cpc[c] = "Update"
    /\ cworld' = [cworld EXCEPT ![c] = spawn_player_world(@, metadata[c], ctick[c])]
    /\ cpc' = [cpc EXCEPT ![c] = "PostUpdate"]
    /\ UNCHANGED <<scenario, settings, listen, button_input, conn, metadata, ctick, csent, input_buffer, rule>>
    /\ UNCHANGED linkVars
    /\ UNCHANGED serverVars

\* the creation record a client sends for one of its entities that holds Replicate
CreationRecord(en, now) ==
    [client_entity |-> en.e, id |-> en.id, position |-> en.position, tick |-> now]

RECURSIVE SeqOf(_)
SeqOf(S) ==
    IF S = {} THEN <<>>
    ELSE LET m == CHOOSE en \in S : \A o \in S : en.e <= o.e
         IN <<m>> \o SeqOf(S \ {m})

\* PostUpdate, send: the inputs buffered since the last send, and the creation record
\* of every entity still holding Replicate (sent once: Replicate is then removed from
\* a pre-spawned entity)
ClientSend(c) ==
    /\ cpc[c] = "PostUpdate"
    /\ cpc' = [cpc EXCEPT ![c] = "PreUpdate"]
    /\ IF conn[c] = "Connected"
       THEN /\ innet' = [innet EXCEPT ![c] = @ \cup ((csent[c] + 1)..ctick[c])]
            /\ csent' = [csent EXCEPT ![c] = ctick[c]]
            /\ spawnnet' = [spawnnet EXCEPT ![c] =
                    @ \o [i \in 1..Cardinality({en \in cworld[c] : en.replicate.present}) |->
                            CreationRecord(SeqOf({en \in cworld[c] : en.replicate.present})[i],
                                           ctick[c])]]
            /\ cworld' = [cworld EXCEPT ![c] =
                    {[en EXCEPT !.replicate = NoReplicate] : en \in @}]
       ELSE UNCHANGED <<innet, csent, spawnnet, cworld>>
    /\ UNCHANGED <<scenario, settings, listen, button_input, conn, metadata, ctick, input_buffer, rule>>
    /\ UNCHANGED <<dropped, acts, upds>>
    /\ UNCHANGED serverVars


\* ------------------------------------------------------------------- links
\* the link conditioner drops an input message
LoseInput(c) ==
    /\ Lossy
    /\ Quiet
    /\ \E t \in innet[c] :
          /\ innet' = [innet EXCEPT ![c] = @ \ {t}]
          /\ dropped' = [dropped EXCEPT ![c] = @ \cup {t}]
    /\ UNCHANGED <<scenario, settings, listen, rule, spawnnet, acts, upds>>
    /\ UNCHANGED clientVars
    /\ UNCHANGED serverVars

\* the link conditioner drops a PlayerPosition update
LoseUpdate(c) ==
    /\ Lossy
    /\ Quiet
    /\ upds[c] # NoMsg
    /\ upds' = [upds EXCEPT ![c] = NoMsg]
    /\ UNCHANGED <<scenario, settings, listen, rule, innet, dropped, spawnnet, acts>>
    /\ UNCHANGED clientVars
    /\ UNCHANGED serverVars

\* ----------------------------------------------------------- server: frame
\* a server entity: the components received, the client whose connection delivered it
\* (the event context), the client's handle of it (ShouldBePredicted.client_entity), the
\* peers its creation record was sent to and the server tick it was spawned in
ServerEntity(e, rec, c) ==
    [e |-> e, id |-> rec.id, position |-> rec.position, replicate |-> NoReplicate,
     client |-> c, client_entity |-> rec.client_entity, sent |-> {}, born |-> stick]

\* PreUpdate, receive: the connect request of a client is accepted
ServerAccept(c) ==
    /\ spc = "PreUpdate"
    /\ Quiet
    /\ conn[c] = "Connecting"
    /\ c \notin connected
    /\ Accepted(c)
    /\ connected' = connected \cup {c}
    /\ UNCHANGED <<scenario, settings, listen, rule, spc, stick, disconnections, insert_events, sworld,
                   despawns, applied>>
    /\ UNCHANGED clientVars
    /\ UNCHANGED linkVars

\* PreUpdate, receive: a connection is lost or closed; a DisconnectEvent is written
ServerDisconnect(c) ==
    /\ spc = "PreUpdate"
    /\ Quiet
    /\ c \in connected
    /\ MayLeave(c)
    /\ conn[c] # "Connecting"
    /\ connected' = connected \ {c}
    /\ disconnections' = disconnections \cup {c}
    /\ UNCHANGED <<scenario, settings, listen, rule, spc, stick, insert_events, sworld, despawns, applied>>
    /\ UNCHANGED clientVars
    /\ UNCHANGED linkVars

\* PreUpdate, receive: a client's creation record arrives; the entity is spawned and a
\* ComponentInsertEvent<PlayerPosition> is written with the client as context
ServerRecvSpawn(c) ==
    /\ spc = "PreUpdate"
    /\ Quiet
    /\ c \in connected
    /\ spawnnet[c] # <<>>
    /\ LET e == NewEntity(sworld)
       IN /\ sworld' = sworld \cup {ServerEntity(e, Head(spawnnet[c]), c)}
          /\ insert_events' = Append(insert_events, [entity |-> e, context |-> c])
    /\ spawnnet' = [spawnnet EXCEPT ![c] = Tail(@)]
    /\ UNCHANGED <<scenario, settings, listen, rule, spc, stick, connected, disconnections, despawns, applied>>
    /\ UNCHANGED clientVars
    /\ UNCHANGED <<innet, dropped, acts, upds>>

\* variant of replicate_players_directive that names client 1 whoever sent the entity
replicate_players_directive_first_client(client_id) ==
    Replicate(All, Only({1}), AllExcept({1}))

\* variant of replicate_players_directive that lets every peer predict
replicate_players_directive_predict_all(client_id) ==
    Replicate(All, All, AllExcept({client_id}))

\* variant of replicate_players_directive that lets every peer interpolate
replicate_players_directive_interpolate_all(client_id) ==
    Replicate(All, Only({client_id}), All)

\* server.rs: replicate_players, the Replicate it inserts for an event of client_id
replicate_players_directive(client_id) ==
    Replicate(All, Only({client_id}), AllExcept({client_id}))

\* server.rs: replicate_players, the world after the events are read in order
RECURSIVE replicate_players_world(_, _)
replicate_players_world(world, events) ==
    IF events = <<>> THEN world
    ELSE LET event == Head(events)
         IN replicate_players_world(
                {IF en.e = event.entity
                 THEN [en EXCEPT !.replicate = replicate_players_directive(event.context)]
                 ELSE en : en \in world},
                Tail(events))

\* variant of replicate_players for a schedule that runs it after FixedUpdate: the frame
\* goes on to FixedUpdate with the insert events unread
replicate_players_after_movement ==
    /\ spc = "PreUpdate"
    /\ Quiet
    /\ spc' = "FixedUpdate"
    /\ UNCHANGED <<scenario, settings, listen, rule, stick, connected, disconnections,
                   insert_events, sworld, despawns, applied>>
    /\ UNCHANGED clientVars
    /\ UNCHANGED linkVars

\* server.rs: replicate_players (PreUpdate, MainSet::ClientReplication)
replicate_players ==
    /\ spc = "PreUpdate"
    /\ Quiet
    /\ sworld' = replicate_players_world(sworld, insert_events)
    /\ insert_events' = <<>>
    /\ spc' = "FixedUpdate"
    /\ UNCHANGED <<scenario, settings, listen, rule, stick, connected, disconnections, despawns, applied>>
    /\ UNCHANGED clientVars
    /\ UNCHANGED linkVars

\* the InputEvents of tick t: one per connected client, with the input of the message
\* that arrived for that tick, or without an input
InputEvent(c, t) ==
    [context |-> c, input |-> IF t \in innet[c] THEN input_buffer[c][t] ELSE NoInput]

RECURSIVE InputEvents(_, _)
InputEvents(clients, t) ==
    IF clients = {} THEN <<>>
    ELSE LET c == CHOOSE m \in clients : \A n \in clients : m <= n
         IN <<InputEvent(c, t)>> \o InputEvents(clients \ {c}, t)

\* variant of movement_event that spawns an entity for every Spawn input
movement_event_respawns(world, event) ==
    IF event.input = NoInput THEN world
    ELSE IF event.input.kind = "Spawn"
    THEN world \cup {ServerEntity(NewEntity(world),
                                  [id |-> event.context, position |-> ZERO,
                                   client_entity |-> NoEntity],
                                  event.context)}
    ELSE {IF en.id = event.context
          THEN [en EXCEPT !.position = shared_movement_behaviour(en.position, event.input)]
          ELSE en : en \in world}

\* variant of movement_event that applies the rule twice
movement_event_twice(world, event) ==
    IF event.input = NoInput THEN world
    ELSE {IF en.id = event.context
          THEN [en EXCEPT !.position =
                    shared_movement_behaviour(
                        shared_movement_behaviour(en.position, event.input), event.input)]
          ELSE en : en \in world}

\* variant of movement_event that moves every player, whoever sent the input
movement_event_everyone(world, event) ==
    IF event.input = NoInput THEN world
    ELSE {[en EXCEPT !.position = shared_movement_behaviour(en.position, event.input)] :
            en \in world}

\* variant of movement_event that spawns a player for a client that has none
movement_event_creates_missing(world, event) ==
    IF event.input = NoInput THEN world
    ELSE IF \A en \in world : en.id # event.context
    THEN world \cup {ServerEntity(NewEntity(world),
                                  [id |-> event.context, position |-> ZERO,
                                   client_entity |-> NoEntity],
                                  event.context)}
    ELSE {IF en.id = event.context
          THEN [en EXCEPT !.position = shared_movement_behaviour(en.position, event.input)]
          ELSE en : en \in world}

\* server.rs: movement, the body of its loop for one InputEvent
movement_event(world, event) ==
    IF event.input = NoInput THEN world
    ELSE {IF en.id = event.context
          THEN [en EXCEPT !.position = shared_movement_behaviour(en.position, event.input)]
          ELSE en : en \in world}

\* server.rs: movement, the world after the events are read in order
RECURSIVE movement_world(_, _)
movement_world(world, events) ==
    IF events = <<>> THEN world
    ELSE movement_world(movement_event(world, Head(events)), Tail(events))

\* the creation record of a client that was sent before tick t has arrived by then,
\* unless a loss delayed it
InOrder(t) ==
    Lossy \/ \A c \in connected : \A i \in 1..Len(spawnnet[c]) : spawnnet[c][i].tick >= t

\* server.rs: movement (FixedUpdate), for the tick that is due; ticks are simulated
\* while a client is connected, up to the horizon, each client being ahead of the server
movement ==
    /\ spc = "FixedUpdate"
    /\ stick < Horizon
    /\ connected # {}
    /\ \A c \in connected : conn[c] = "Connected" => csent[c] > stick
    /\ InOrder(stick + 1)
    /\ stick' = stick + 1
    /\ sworld' = movement_world(sworld, InputEvents(connected, stick + 1))
    /\ innet' = [c \in ClientIds |-> IF c \in connected THEN innet[c] \ {stick + 1} ELSE innet[c]]
    /\ applied' = [c \in ClientIds |->
                     IF /\ c \in connected
                        /\ stick + 1 \in innet[c]
                        /\ \E en \in sworld : en.id = c
                     THEN applied[c] \cup {stick + 1} ELSE applied[c]]
    /\ spc' = "Update"
    /\ UNCHANGED <<scenario, settings, listen, rule, connected, disconnections, insert_events, despawns>>
    /\ UNCHANGED clientVars
    /\ UNCHANGED <<dropped, spawnnet, acts, upds>>

\* a frame of the server in which no fixed tick is due
ServerNoTick ==
    /\ spc = "FixedUpdate"
    /\ spc' = "Update"
    /\ UNCHANGED <<scenario, settings, listen, rule, stick, connected, disconnections, insert_events, sworld,
                   despawns, applied>>
    /\ UNCHANGED clientVars
    /\ UNCHANGED linkVars

\* variant of handle_disconnections_despawned that despawns every player entity
handle_disconnections_despawned_all(world, events) ==
    IF events = {} THEN {} ELSE world

\* variant of handle_disconnections_despawned that despawns the other clients' entities
handle_disconnections_despawned_others(world, events) ==
    {en \in world : \E client_id \in events : en.id # client_id}

\* server.rs: handle_disconnections, the entities it despawns
handle_disconnections_despawned(world, events) ==
    {en \in world : \E client_id \in events : en.id = client_id}

\* server.rs: handle_disconnections (Update)
handle_disconnections ==
    /\ spc = "Update"
    /\ LET gone == handle_disconnections_despawned(sworld, disconnections)
       IN /\ sworld' = sworld \ gone
          /\ despawns' = despawns \cup
                    UNION {{[e |-> en.e, peer |-> p] : p \in en.sent} : en \in gone}
    /\ disconnections' = {}
    /\ spc' = "PostUpdate"
    /\ UNCHANGED <<scenario, settings, listen, rule, stick, connected, insert_events, applied>>
    /\ UNCHANGED clientVars
    /\ UNCHANGED linkVars


\* the peers an entity is replicated to, predicted by and interpolated by
ReplicatedTo(en) ==
    IF en.replicate.present THEN Resolve(en.replicate.replication_target, connected) ELSE {}
PredictedBy(en) ==
    ReplicatedTo(en) \cap Resolve(en.replicate.prediction_target, connected)
InterpolatedBy(en) ==
    ReplicatedTo(en) \cap Resolve(en.replicate.interpolation_target, connected)

SpawnRecord(en, p) ==
    [kind |-> "spawn", e |-> en.e, id |-> en.id, position |-> en.position, tick |-> stick,
     predicted |-> p \in PredictedBy(en), interpolated |-> p \in InterpolatedBy(en),
     client_entity |-> IF p = en.client THEN en.client_entity ELSE NoEntity]

DespawnRecord(e) ==
    [kind |-> "despawn", e |-> e, id |-> NoClient, position |-> ZERO, tick |-> stick,
     predicted |-> FALSE, interpolated |-> FALSE, client_entity |-> NoEntity]

\* the entity actions of one send to peer p: deletions, then creations, by handle
ActionsFor(p) ==
    LET gone == SeqOf({d \in despawns : d.peer = p})
        new == SeqOf({en \in sworld : p \in ReplicatedTo(en) \ en.sent})
    IN [i \in 1..Len(gone) |-> DespawnRecord(gone[i].e)]
       \o [i \in 1..Len(new) |-> SpawnRecord(new[i], p)]

\* protocol.rs: Components, the components of an entity that every update carries:
\* those marked #[sync(full)] (PlayerPosition is; a position is in every update)
FullComponents(en) ==
    IF PlayerIdSyncMode = "Full"
    THEN [id |-> en.id, position |-> en.position]
    ELSE [position |-> en.position]

\* the PlayerPosition update of one send to peer p (sync full: every send)
UpdateFor(p) ==
    LET old == {en \in sworld : p \in ReplicatedTo(en) \cap en.sent}
    IN IF old = {} THEN upds[p]
       ELSE [tick |-> stick,
             vals |-> [e \in {en.e : en \in old} |->
                         FullComponents(CHOOSE en \in old : en.e = e)]]

\* PostUpdate, send, when server_send_interval has elapsed
ServerSend ==
    /\ spc = "PostUpdate"
    /\ acts' = [p \in ClientIds |-> IF p \in connected THEN acts[p] \o ActionsFor(p) ELSE acts[p]]
    /\ upds' = [p \in ClientIds |-> IF p \in connected THEN UpdateFor(p) ELSE upds[p]]
    /\ sworld' = {[en EXCEPT !.sent = @ \cup ReplicatedTo(en)] : en \in sworld}
    /\ despawns' = {}
    /\ spc' = "PreUpdate"
    /\ UNCHANGED <<scenario, settings, listen, rule, stick, connected, disconnections, insert_events, applied>>
    /\ UNCHANGED clientVars
    /\ UNCHANGED <<innet, dropped, spawnnet>>

\* PostUpdate of a frame in which server_send_interval has not elapsed
ServerNoSend ==
    /\ spc = "PostUpdate"
    /\ spc' = "PreUpdate"
    /\ UNCHANGED <<scenario, settings, listen, rule, stick, connected, disconnections, insert_events, sworld,
                   despawns, applied>>
    /\ UNCHANGED clientVars
    /\ UNCHANGED linkVars

\* ------------------------------------------------------- the rule on its own
Grid == {Vec2(px, py) : px \in -GridTicks..GridTicks, py \in -GridTicks..GridTicks}

\* a server world with a player of client 1 and a player of client 2 at position
RuleServerWorld(position) ==
    {ServerEntity(c, [id |-> c, position |-> position, client_entity |-> NoEntity], c) :
        c \in 1..2}

\* the world of client 1 with its predicted player and its confirmed entity, and the
\* confirmed and interpolated entities of client 2's player, all at position
RuleClientWorld(position) ==
    {ClientEntity(1, "Confirmed", PlayerBundle(1, position), NoEntity, 1, 0, FALSE),
     ClientEntity(2, "Predicted", PlayerBundle(1, position), 1, NoEntity, 0, TRUE),
     ClientEntity(3, "Confirmed", PlayerBundle(2, position), NoEntity, 2, 0, FALSE),
     ClientEntity(4, "Interpolated", PlayerBundle(2, position), 3, NoEntity, 0, FALSE)}

\* variant of ClientTransport that reads the channel the client writes
ClientTransport_crossed == [recv |-> "to_server", send |-> "to_server"]

\* TransportConfig::LocalChannel of the client app: the channel ends it was given
ClientTransport == [recv |-> "from_server", send |-> "to_server"]

\* TransportConfig::Channels of the server app, the entry for LOCAL_SOCKET
ServerTransport == [recv |-> "to_server", send |-> "from_server"]

Transport(app) == IF app = "client_app" THEN ClientTransport ELSE ServerTransport

listenUnchanged ==
    /\ UNCHANGED <<scenario, settings, rule>>
    /\ UNCHANGED clientVars
    /\ UNCHANGED linkVars
    /\ UNCHANGED serverVars

\* run, Cli::ListenServer: both channels are created, each app gets its ends, the server
\* app is moved to a new thread and the client app runs on the calling thread
run_ListenServer ==
    /\ scenario = "listen"
    /\ ~listen.spawned
    /\ listen' = [listen EXCEPT !.spawned = TRUE,
                                !.client_app.thread = "main",
                                !.server_app.thread = "spawned"]
    /\ listenUnchanged

\* an app runs one frame of its own schedule
AppUpdate(app) ==
    /\ scenario = "listen"
    /\ listen.spawned
    /\ listen[app].frame < MaxFrames
    /\ listen' = [listen EXCEPT ![app].frame = @ + 1]
    /\ listenUnchanged

\* an app hands a packet to the send end of its transport
AppSend(app) ==
    /\ scenario = "listen"
    /\ listen.spawned
    /\ listen[app].sent < MaxPackets
    /\ listen' = [listen EXCEPT
                     ![app].sent = @ + 1,
                     ![Transport(app).send] =
                         Append(@, [origin |-> app, frame |-> listen[app].frame])]
    /\ listenUnchanged

\* an app takes the next packet from the receive end of its transport
AppRecv(app) ==
    /\ scenario = "listen"
    /\ listen.spawned
    /\ listen[Transport(app).recv] # <<>>
    /\ listen' = [listen EXCEPT
                     ![app].received = Append(@, Head(listen[Transport(app).recv])),
                     ![Transport(app).recv] = Tail(@)]
    /\ listenUnchanged

\* client_app.run() on the calling thread
ClientAppStep ==
    \/ AppUpdate("client_app")
    \/ AppSend("client_app")
    \/ AppRecv("client_app")

\* server_app.run() on the spawned thread
ServerAppStep ==
    \/ AppUpdate("server_app")
    \/ AppSend("server_app")
    \/ AppRecv("server_app")

InitRuleScenario ==
    /\ scenario = "rule"
    /\ InitSystem
    /\ settings = SameSettings
    /\ listen = BeforeRun
    /\ rule \in {[position |-> p, input |-> i, result |-> p, server |-> RuleServerWorld(p),
                  client |-> RuleClientWorld(p), done |-> FALSE] :
                    p \in Grid, i \in Inputs}

ApplyRule ==
    /\ scenario = "rule"
    /\ ~rule.done
    /\ rule' = [rule EXCEPT
                    !.result = shared_movement_behaviour(rule.position, rule.input),
                    !.server = movement_world(@, <<[context |-> 1, input |-> rule.input]>>),
                    !.client = player_movement_world(@, rule.input, 1),
                    !.done = TRUE]
    /\ UNCHANGED <<scenario, settings, listen>>
    /\ UNCHANGED clientVars
    /\ UNCHANGED linkVars
    /\ UNCHANGED serverVars

\* ------------------------------------------------------------ specifications
ClientStep(c) ==
    \/ client_init(c)
    \/ ClientConnected(c)
    \/ ClientRecvAction(c)
    \/ ClientRecvUpdate(c)
    \/ handle_connection(c)
    \/ buffer_input(c)
    \/ ClientNoTick(c)
    \/ player_movement(c)
    \/ spawn_player(c)
    \/ ClientSend(c)

ServerStep ==
    \/ \E c \in ClientIds : ServerAccept(c)
    \/ \E c \in ClientIds : ServerRecvSpawn(c)
    \/ replicate_players
    \/ movement
    \/ ServerNoTick
    \/ handle_disconnections
    \/ ServerSend
    \/ ServerNoSend

Next ==
    \/ \E c \in ClientIds : ClientStep(c)
    \/ \E c \in ClientIds : ClientDisconnected(c)
    \/ \E c \in ClientIds : ServerDisconnect(c)
    \/ \E c \in ClientIds : LoseInput(c)
    \/ \E c \in ClientIds : LoseUpdate(c)
    \/ ServerStep

Spec == Init /\ [][Next]_vars

InitE2E ==
    /\ scenario = "e2e"
    /\ InitSystem
    /\ settings = SameSettings
    /\ listen = BeforeRun
    /\ rule = InitRule

NextE2E ==
    \/ \E c \in ClientIds : ClientStep(c)
    \/ ServerStep

SpecE2E == InitE2E /\ [][NextE2E]_vars

InitLoss ==
    /\ scenario = "loss"
    /\ InitSystem
    /\ settings = SameSettings
    /\ listen = BeforeRun
    /\ rule = InitRule

NextLoss ==
    \/ \E c \in ClientIds : ClientStep(c)
    \/ \E c \in ClientIds : LoseInput(c)
    \/ \E c \in ClientIds : LoseUpdate(c)
    \/ ServerStep

SpecLoss == InitLoss /\ [][NextLoss]_vars

NextRule == ApplyRule

SpecRule == InitRuleScenario /\ [][NextRule]_vars

InitKeys ==
    /\ scenario = "keys"
    /\ InitSystem
    /\ settings = SameSettings
    /\ listen = BeforeRun
    /\ rule = InitRule

NextKeys ==
    \/ \E c \in ClientIds : ClientStep(c)
    \/ \E c \in ClientIds : LoseInput(c)
    \/ ServerStep

SpecKeys == InitKeys /\ [][NextKeys]_vars

InitHandshake ==
    /\ scenario = "handshake"
    /\ InitSystem
    /\ settings \in {[server |-> SharedSettings(1, 1), client |-> [c \in ClientIds |-> s]] :
                        s \in AllSettings}
    /\ listen = BeforeRun
    /\ rule = InitRule

NextHandshake ==
    \/ \E c \in ClientIds : ClientStep(c)
    \/ \E c \in ClientIds : ConnectTimeout(c)
    \/ \E c \in ClientIds : ClientDisconnected(c)
    \/ \E c \in ClientIds : ServerDisconnect(c)
    \/ ServerStep

SpecHandshake == InitHandshake /\ [][NextHandshake]_vars

\* every app keeps running its frames, a request that can be accepted is accepted and
\* answered, and the time a connect request may stay unanswered runs out
SpecHandshakeFair ==
    /\ SpecHandshake
    /\ \A c \in ClientIds : WF_vars(ClientStep(c))
    /\ WF_vars(ServerStep)
    /\ \A c \in ClientIds : SF_vars(ServerAccept(c))
    /\ \A c \in ClientIds : SF_vars(ClientConnected(c))
    /\ \A c \in ClientIds : SF_vars(ConnectTimeout(c))

InitListen ==
    /\ scenario = "listen"
    /\ InitSystem
    /\ settings = SameSettings
    /\ listen = BeforeRun
    /\ rule = InitRule

NextListen ==
    \/ run_ListenServer
    \/ ClientAppStep
    \/ ServerAppStep

SpecListen == InitListen /\ [][NextListen]_vars

InitPeers ==
    /\ scenario = "peers"
    /\ InitSystem
    /\ settings = SameSettings
    /\ listen = BeforeRun
    /\ rule = InitRule

NextPeers ==
    \/ \E c \in ClientIds : ClientStep(c)
    \/ \E c \in ClientIds : ClientDisconnected(c)
    \/ \E c \in ClientIds : ServerDisconnect(c)
    \/ ServerStep

SpecPeers == InitPeers /\ [][NextPeers]_vars


\* ------------------------------------------------------------------- claims
Flag(b) == IF b THEN 1 ELSE 0

OwnPredicted(c) == {en \in Predicted(cworld[c]) : en.id = c}
OwnConfirmed(c) == {en \in Confirmed(cworld[c]) : en.id = c}
ServerPlayers(c) == {en \in sworld : en.id = c}

\* C1: for every position and every combination of the four flags the rule yields
\* (x + MOVE_SPEED*(right - left), y + MOVE_SPEED*(up - down)): opposite flags cancel
\* and a diagonal is the plain sum of both axes.
C1_SummedAxis ==
    rule.done /\ rule.input.kind = "Direction" =>
        rule.result =
            Vec2(rule.position.x + MOVE_SPEED * (Flag(rule.input.right) - Flag(rule.input.left)),
                 rule.position.y + MOVE_SPEED * (Flag(rule.input.up) - Flag(rule.input.down)))

\* up and down cancel while right moves: the result is one step to the right
C1_Witness ==
    /\ rule.done
    /\ rule.input = Direction(TRUE, TRUE, FALSE, TRUE)
    /\ rule.position = Vec2(1, -2)
    /\ rule.result = Vec2(1 + MOVE_SPEED, -2)


\* C2: with zero loss, once the client has its player entity (spawned at (0,0)) and sends
\* move-up on 10 consecutive ticks, at every tick k the server has run the client's
\* predicted position of tick k equals the server's position, and after the tenth
\* of those ticks the server's position is (0, 10*MOVE_SPEED).
C2_EndToEnd ==
    /\ \A s \in ServerPlayers(1) : \A p \in OwnPredicted(1) :
          stick \in DOMAIN p.history => p.history[stick] = s.position
    /\ Cardinality(DirectionTicks(1)) = E2ETicks /\ stick >= MaxOf(DirectionTicks(1)) =>
          /\ ServerPlayers(1) # {}
          /\ \A s \in ServerPlayers(1) : s.position = Vec2(0, E2ETicks * MOVE_SPEED)

\* the ten move-up inputs are applied on both sides
C2_Witness ==
    /\ Cardinality(DirectionTicks(1)) = E2ETicks
    /\ stick = MaxOf(DirectionTicks(1))
    /\ \E s \in ServerPlayers(1) : s.position = Vec2(0, E2ETicks * MOVE_SPEED)
    /\ \E p \in OwnPredicted(1) : /\ p.confirmed # NoEntity
                                  /\ p.history[stick] = Vec2(0, E2ETicks * MOVE_SPEED)

\* the inputs of the ticks from..to applied in tick order by the shared rule
RECURSIVE Reapplied(_, _, _, _)
Reapplied(position, from, to, buf) ==
    IF from > to THEN position
    ELSE Reapplied(shared_movement_behaviour(position, buf[from]), from + 1, to, buf)

PeerView(en, p) ==
    {v \in {"not-replicated", "predicted", "interpolated"} :
        \/ v = "not-replicated" /\ p \notin ReplicatedTo(en)
        \/ v = "predicted" /\ p \in PredictedBy(en)
        \/ v = "interpolated" /\ p \in InterpolatedBy(en)}

\* C4: for every entity that holds the Replicate of replicate_players, the connected
\* peers that predict it and those that interpolate it are disjoint, its prediction
\* target names the owner (who predicts it while connected), every connected peer
\* sees it as exactly one of not-replicated, predicted, interpolated, and a client
\* holds for each confirmed entity exactly one copy: predicted if its own, else
\* interpolated.
C4_ReplicationTargets ==
    /\ \A en \in sworld : en.replicate.present =>
          /\ PredictedBy(en) \cap InterpolatedBy(en) = {}
          /\ en.id \in Resolve(en.replicate.prediction_target, ClientIds)
          /\ en.id \in connected => en.id \in PredictedBy(en)
          /\ \A p \in connected : Cardinality(PeerView(en, p)) = 1
    /\ \A c \in ClientIds : \A k \in Confirmed(cworld[c]) :
          LET copies == {en \in cworld[c] : en.confirmed = k.e}
          IN /\ Cardinality(copies) = 1
             /\ \A en \in copies : en.role = IF k.id = c THEN "Predicted" ELSE "Interpolated"

\* two connected peers, each predicting its own entity and interpolating the other's
C4_Witness ==
    /\ connected = {1, 2}
    /\ \A c \in {1, 2} : \E en \in ServerPlayers(c) :
          en.replicate.present /\ PredictedBy(en) = {c} /\ InterpolatedBy(en) = {1, 2} \ {c}
    /\ \E en \in Interpolated(cworld[2]) : en.id = 1
    /\ \E en \in OwnPredicted(2) : en.confirmed # NoEntity


\* the server has processed the DisconnectEvent of a client that was connected
Left(c) ==
    /\ cpc[c] # "Startup"
    /\ conn[c] # "Connecting"
    /\ c \notin connected
    /\ c \notin disconnections

\* a deletion of server entity e is on its way to peer p: waiting for the next send,
\* or sent and not yet received
DeletionPending(p, e) ==
    \/ \E d \in despawns : d.peer = p /\ d.e = e
    \/ \E i \in 1..Len(acts[p]) : acts[p][i].kind = "despawn" /\ acts[p][i].e = e

\* the claim as stated: once the deletions have left with a send, no connected peer
\* holds an entity of the client any more
C5_Original ==
    \A c \in ClientIds : Left(c) /\ despawns = {} =>
        \A p \in connected : \A en \in cworld[p] : en.id # c

\* C5: once the server has processed a DisconnectEvent for client C it holds no entity
\* whose PlayerId is C, and every entity of C that a remaining connected peer still
\* holds, or is still to receive, has its deletion on the way to that peer: queued
\* for the server's next send or in flight behind the creation on the reliable channel.
C5_Cleanup ==
    \A c \in ClientIds : Left(c) =>
        /\ ServerPlayers(c) = {}
        /\ \A p \in connected :
              /\ \A en \in cworld[p] : en.id = c =>
                    \E k \in Confirmed(cworld[p]) :
                        /\ k.id = c
                        /\ en = k \/ en.confirmed = k.e
                        /\ DeletionPending(p, k.remote)
              /\ \A i \in 1..Len(acts[p]) :
                    acts[p][i].kind = "spawn" /\ acts[p][i].id = c =>
                        \/ \E d \in despawns : d.peer = p /\ d.e = acts[p][i].e
                        \/ \E j \in (i + 1)..Len(acts[p]) :
                              acts[p][j].kind = "despawn" /\ acts[p][j].e = acts[p][i].e

\* the deletion has left the server and the remaining peer still holds the entity
C5_Witness ==
    /\ Left(1)
    /\ 2 \in connected
    /\ despawns = {}
    /\ ServerPlayers(1) = {}
    /\ \E k \in Confirmed(cworld[2]) : k.id = 1 /\ DeletionPending(2, k.remote)

\* C6: a tick of the server's movement in which a Spawn input of client C arrives
\* while the server has an entity of C leaves the set of entities and every entity
\* of C as they were, and spawn_player on a client that holds an entity of its own
\* identity leaves the client's world as it was.
C6_SpawnIdempotent ==
    [][/\ \A c \in connected :
             /\ spc = "FixedUpdate" /\ spc' = "Update" /\ stick' = stick + 1
             /\ stick + 1 \in innet[c]
             /\ input_buffer[c][stick + 1].kind = "Spawn"
             /\ ServerPlayers(c) # {}
             => /\ {en.e : en \in sworld'} = {en.e : en \in sworld}
                /\ \A en \in sworld' : en.id = c => en \in sworld
       /\ \A c \in ClientIds :
             /\ cpc[c] = "Update" /\ cpc'[c] = "PostUpdate"
             /\ \E en \in cworld[c] : en.id = metadata[c]
             => cworld'[c] = cworld[c]]_vars

\* the server has just run a tick for which a Spawn input of a client with an entity arrived
C6_Witness ==
    /\ spc = "Update"
    /\ stick \in applied[1]
    /\ input_buffer[1][stick].kind = "Spawn"
    /\ ServerPlayers(1) # {}

\* C7: no player entity of client C exists, on the client or on the server, unless
\* C has buffered a Spawn input.
C7_OnlyOnSpawnInput ==
    \A c \in ClientIds :
        (\E en \in cworld[c] \cup sworld : en.id = c) =>
            \E t \in 1..ctick[c] : input_buffer[c][t].kind = "Spawn"

\* C8: a client holds at most one predicted and at most one confirmed entity of its
\* own identity and no interpolated one, and its confirmed entity is linked to the
\* pre-spawned placeholder, which is still predicted.
C8_PreSpawnedMerge ==
    \A c \in ClientIds :
        /\ Cardinality(OwnPredicted(c)) <= 1
        /\ Cardinality(OwnConfirmed(c)) <= 1
        /\ \A en \in Interpolated(cworld[c]) : en.id # c
        /\ \A k \in OwnConfirmed(c) :
              \E p \in OwnPredicted(c) : p.pre /\ p.role = "Predicted" /\ p.confirmed = k.e

\* the server's creation record has been merged into the placeholder
C8_Witness ==
    \E k \in OwnConfirmed(1) : \E p \in OwnPredicted(1) :
        /\ p.pre
        /\ p.confirmed = k.e
        /\ cworld[1] = {k, p}

\* the claim as stated: a PlayerPosition value comes to an entity of the server only
\* in a tick of the server's movement
C9_Original ==
    [][\A en \in sworld' :
          \/ \E o \in sworld : o.e = en.e /\ o.position = en.position
          \/ spc = "FixedUpdate" /\ spc' = "Update"]_vars

\* C9: after an entity's creation the server's movement is the only writer of its
\* PlayerPosition; the initial value is the (0,0) of the creation record the owning
\* client sent; a client's fixed step writes only predicted entities of its own world.
C9_SoleWriter ==
    [][/\ \A en \in sworld' :
             \/ \E o \in sworld : o.e = en.e /\ o.position = en.position
             \/ /\ spc = "FixedUpdate" /\ spc' = "Update"
                /\ \E o \in sworld : o.e = en.e
             \/ /\ \A o \in sworld : o.e # en.e
                /\ \E c \in connected :
                      /\ spawnnet[c] # <<>>
                      /\ spawnnet'[c] = Tail(spawnnet[c])
                      /\ en.position = Head(spawnnet[c]).position
                /\ en.position = ZERO
       /\ \A c \in ClientIds :
             cpc[c] = "FixedUpdate" =>
                /\ sworld' = sworld
                /\ \A d \in ClientIds \ {c} : cworld'[d] = cworld[d]
                /\ \A en \in cworld[c] : en.role # "Predicted" => en \in cworld'[c]]_vars

\* the server has moved an entity away from the value it was created with
C9_Witness ==
    \E en \in sworld : en.position # ZERO /\ applied[en.id] # {} /\ en.born < stick

\* the ticks whose input reached the server before it held the client's entity
Early(c, born) == {t \in 1..LossTicks : t <= born /\ t \notin dropped[c]}

\* the claim as stated: the shortfall is MOVE_SPEED for every dropped input
C10_Original ==
    \A s \in ServerPlayers(1) : stick = LossTicks =>
        LossTicks * MOVE_SPEED - s.position.x = MOVE_SPEED * Cardinality(dropped[1])

\* C10: the server's x position is MOVE_SPEED times the number of inputs it applied,
\* and after the N ticks it falls short of N*MOVE_SPEED by MOVE_SPEED times the number
\* of inputs that were dropped or that arrived for a tick the server ran before it
\* held the client's entity.
C10_LossTolerance ==
    \A s \in ServerPlayers(1) :
        /\ s.position = Vec2(MOVE_SPEED * Cardinality(applied[1]), 0)
        /\ stick = LossTicks =>
              LossTicks * MOVE_SPEED - s.position.x =
                  MOVE_SPEED * (Cardinality(dropped[1]) + Cardinality(Early(1, s.born)))

\* one of the N inputs was dropped and the others were applied
C10_Witness ==
    /\ stick = LossTicks
    /\ Cardinality(dropped[1]) = 1
    /\ \E s \in ServerPlayers(1) : s.position = Vec2((LossTicks - 1) * MOVE_SPEED, 0)


\* C11: a Spawn, Delete or None input leaves PlayerPosition as it was: in the rule
\* itself, in every entity of the world the server's movement runs on, and in every
\* entity of the world the client's player_movement runs on, for every position.
C11_NonDirectionKeeps ==
    rule.done /\ rule.input.kind \in {"Spawn", "Delete", "None"} =>
        /\ rule.result = rule.position
        /\ {en.e : en \in rule.server} = {en.e : en \in RuleServerWorld(rule.position)}
        /\ \A en \in rule.server : en.position = rule.position
        /\ {en.e : en \in rule.client} = {en.e : en \in RuleClientWorld(rule.position)}
        /\ \A en \in rule.client : en.position = rule.position

\* a Delete input has gone through the rule and both systems away from the origin
C11_Witness ==
    /\ rule.done
    /\ rule.input = Plain("Delete")
    /\ rule.position = Vec2(1, -2)
    /\ rule.result = Vec2(1, -2)
    /\ \E en \in rule.server : en.id = 1 /\ en.position = Vec2(1, -2)
    /\ \E en \in rule.client : en.role = "Predicted" /\ en.position = Vec2(1, -2)


\* the keys of the four directions
UpKeys == {"KeyW", "ArrowUp"}
DownKeys == {"KeyS", "ArrowDown"}
LeftKeys == {"KeyA", "ArrowLeft"}
RightKeys == {"KeyD", "ArrowRight"}
DirectionKeys == UpKeys \cup DownKeys \cup LeftKeys \cup RightKeys

\* C12: every fixed tick of a client is a run of buffer_input that buffers, for that
\* tick and no other, one value: the Direction whose flags are the held direction
\* keys when one is held, otherwise Spawn when the spawn key is held, otherwise None;
\* and a tick the server runs without a value of a connected client is a tick whose
\* input message was dropped.
C12_OneInputPerTick ==
    [][/\ \A c \in ClientIds :
             conn[c] = "Connected" /\ ctick'[c] # ctick[c] =>
                LET keypress == button_input'[c]
                    value == input_buffer'[c][ctick'[c]]
                IN /\ cpc[c] = "FixedPreUpdate" /\ cpc'[c] = "FixedUpdate"
                   /\ ctick'[c] = ctick[c] + 1
                   /\ \A t \in (1..Horizon) \ {ctick'[c]} :
                         input_buffer'[c][t] = input_buffer[c][t]
                   /\ value \in Inputs
                   /\ keypress \cap DirectionKeys # {} =>
                         value = Direction(keypress \cap UpKeys # {}, keypress \cap DownKeys # {},
                                           keypress \cap LeftKeys # {}, keypress \cap RightKeys # {})
                   /\ keypress \cap DirectionKeys = {} /\ "Space" \in keypress =>
                         value = Plain("Spawn")
                   /\ keypress \cap DirectionKeys = {} /\ "Space" \notin keypress =>
                         value = Plain("None")
       /\ \A c \in ClientIds :
             cpc[c] = "FixedUpdate" => input_buffer[c][ctick[c]] \in Inputs
       /\ stick' # stick =>
             \A c \in connected :
                conn[c] = "Connected" /\ InputEvent(c, stick').input = NoInput =>
                    stick' \in dropped[c]]_vars

\* up, down and the spawn key held together: a Direction is buffered, not a Spawn
C12_Witness ==
    /\ cpc[1] = "FixedUpdate"
    /\ button_input[1] = {"KeyW", "KeyS", "Space"}
    /\ input_buffer[1][ctick[1]] = Direction(TRUE, TRUE, FALSE, FALSE)


\* the changes of connection state the lifecycle names
Lifecycle ==
    {<<"Disconnected", "Connecting">>, <<"Connecting", "Connected">>,
     <<"Connected", "Disconnected">>}

\* the secret and the protocol id of client c are the server's
Matches(c) ==
    /\ settings.client[c].private_key = settings.server.private_key
    /\ settings.client[c].protocol_id = settings.server.protocol_id

C16_ResetOnDisconnect ==
    [][\A c \in ClientIds : conn[c] = "Connected" /\ conn'[c] = "Disconnected" =>
          /\ \A t \in 1..Horizon : input_buffer'[c][t] = NoInput
          /\ Predicted(cworld'[c]) = {}]_vars


CreationsOf(p, e) ==
    Cardinality({i \in 1..Len(acts[p]) : acts[p][i].kind = "spawn" /\ acts[p][i].e = e})
        + Cardinality({k \in Confirmed(cworld[p]) : k.remote = e})

C19_OnlyOwnPredicted ==
    [][\A c \in ClientIds :
          /\ \A en \in cworld'[c] : en.role = "Predicted" => en.id = c
          /\ cpc[c] = "FixedUpdate" /\ cpc'[c] # "FixedUpdate" =>
                \A en \in cworld[c] : en.id # c \/ en.role # "Predicted" => en \in cworld'[c]]_vars

\* client 2 has run player_movement with a Direction input while it holds its own
\* predicted player and the interpolated player of client 1, which has not moved
C19_Witness ==
    /\ cpc[2] = "Update"
    /\ ctick[2] > 0
    /\ input_buffer[2][ctick[2]].kind = "Direction"
    /\ \E en \in OwnPredicted(2) : ctick[2] \in DOMAIN en.history /\ en.position # ZERO
    /\ \E en \in Interpolated(cworld[2]) : en.id = 1 /\ en.position = ZERO


\* C20: in a listen-server run the server app and the client app run on different
\* threads; a packet the client sent is in the to_server channel or received by the
\* server and nowhere else, a packet the server sent is in the from_server channel or
\* received by the client and nowhere else; and a step of one app leaves the state of
\* the other app as it was.
C20_LoopbackOnly ==
    [][/\ listen'.spawned => listen'.client_app.thread # listen'.server_app.thread
       /\ \A i \in 1..Len(listen'.server_app.received) :
              listen'.server_app.received[i].origin = "client_app"
       /\ \A i \in 1..Len(listen'.client_app.received) :
              listen'.client_app.received[i].origin = "server_app"
       /\ \A i \in 1..Len(listen'.to_server) : listen'.to_server[i].origin = "client_app"
       /\ \A i \in 1..Len(listen'.from_server) : listen'.from_server[i].origin = "server_app"
       /\ listen'.client_app.sent = Len(listen'.to_server) + Len(listen'.server_app.received)
       /\ listen'.server_app.sent = Len(listen'.from_server) + Len(listen'.client_app.received)
       /\ listen.spawned /\ listen'.client_app # listen.client_app =>
              listen'.server_app = listen.server_app
       /\ listen.spawned /\ listen'.server_app # listen.server_app =>
              listen'.client_app = listen.client_app]_vars

\* both apps have run frames and each has received a packet the other sent after its
\* first frame
C20_Witness ==
    /\ listen.spawned
    /\ listen.client_app.frame > 0
    /\ listen.server_app.frame > 0
    /\ \E i \in 1..Len(listen.server_app.received) : listen.server_app.received[i].frame > 0
    /\ \E i \in 1..Len(listen.client_app.received) : listen.client_app.received[i].frame > 0


\* C21: whenever the server frame is past PreUpdate no insert event is unread and every
\* received player entity has its Replicate directive, so the movement of a frame never
\* applies an input to an entity that replicate_players has not handled.
C21_ReplicateBeforeMovement ==
    [][/\ spc' # "PreUpdate" =>
              /\ insert_events' = <<>>
              /\ \A en \in sworld' : en.replicate.present
       /\ stick' # stick =>
              /\ spc = "FixedUpdate"
              /\ insert_events = <<>>
              /\ \A en \in sworld : en.replicate.present]_vars

\* movement has just applied the input of a tick to an entity that was received after
\* the tick before it, and the entity has its directive
C21_Witness ==
    /\ spc = "Update"
    /\ \E en \in sworld :
          /\ en.born = stick - 1
          /\ stick \in applied[en.id]
          /\ en.position # ZERO
          /\ en.replicate.present


\* C22: the server's movement, given an input of client 1 on a world that holds a
\* player of client 1 and a player of client 2, gives the player of client 1 the
\* position the rule computes and leaves the player of client 2, and the PlayerId of
\* both, as they were, for every input and every position.
C22_InputIsolation ==
    rule.done =>
        /\ {[e |-> en.e, id |-> en.id] : en \in rule.server} =
           {[e |-> en.e, id |-> en.id] : en \in RuleServerWorld(rule.position)}
        /\ \A en \in rule.server :
              /\ en.id = 1 => en.position = rule.result
              /\ en.id # 1 => en \in RuleServerWorld(rule.position)

\* a Direction input of client 1 has moved the player of client 1 and the player of
\* client 2 is where it was
C22_Witness ==
    /\ rule.done
    /\ rule.input = Direction(TRUE, FALSE, FALSE, TRUE)
    /\ rule.result # rule.position
    /\ \E en \in rule.server : en.id = 1 /\ en.position = rule.result
    /\ \E en \in rule.server : en.id = 2 /\ en.position = rule.position


\* the entities of client c's world that its own spawn_player created
Placeholders(c) == {en \in cworld[c] : en.id = c /\ en.pre}

\* C23: in every reachable state the server holds at most one entity per PlayerId, and
\* every client holds at most one entity that its own spawn_player created, and at
\* most one predicted entity, for its own identity.
C23_OnePlayerPerIdentity ==
    \A c \in ClientIds :
        /\ Cardinality(ServerPlayers(c)) <= 1
        /\ Cardinality(Placeholders(c)) <= 1
        /\ Cardinality(OwnPredicted(c)) <= 1

\* client 1 has connected, spawned, sent inputs and disconnected, client 2 is still
\* connected: the server holds the one player of client 2 and each client its one
\* placeholder
C23_Witness ==
    /\ Left(1)
    /\ 2 \in connected
    /\ ServerPlayers(1) = {}
    /\ Cardinality(ServerPlayers(2)) = 1
    /\ applied[1] # {}
    /\ Cardinality(Placeholders(1)) = 1
    /\ Cardinality(Placeholders(2)) = 1


\* C24: every server entity that holds Replicate names exactly one peer in its
\* prediction target, the client whose connection delivered the entity; that client
\* is the one in the entity's PlayerId, and it is the only peer its interpolation
\* target leaves out.
C24_TargetsMatchOwner ==
    \A en \in sworld : en.replicate.present =>
        /\ en.replicate.prediction_target = Only({en.client})
        /\ en.client = en.id
        /\ en.replicate.interpolation_target = AllExcept({en.id})
        /\ Resolve(en.replicate.prediction_target, ClientIds) = {en.id}
        /\ Resolve(en.replicate.interpolation_target, ClientIds) = ClientIds \ {en.id}

\* the server holds the players of client 1 and of client 2, each with its directive
C24_Witness ==
    /\ \E en \in sworld : en.id = 1 /\ en.replicate.present
    /\ \E en \in sworld : en.id = 2 /\ en.replicate.present
                             /\ en.replicate.prediction_target = Only({2})


\* C25: a run of handle_disconnections removes exactly the entities whose PlayerId is
\* a client with an unread DisconnectEvent; every other entity is in the world
\* afterwards with its PlayerId, its PlayerPosition and everything else unchanged.
C25_DisconnectIsolation ==
    [][spc = "Update" /\ spc' = "PostUpdate" =>
          /\ \A en \in sworld : en.id \notin disconnections => en \in sworld'
          /\ \A en \in sworld : en.id \in disconnections =>
                \A other \in sworld' : other.e # en.e
          /\ sworld' \subseteq sworld]_vars

\* handle_disconnections has just despawned the player of client 1, and the player of
\* client 2, which is still connected and has moved, is in the world
C25_Witness ==
    /\ spc = "PostUpdate"
    /\ 1 \notin connected
    /\ disconnections = {}
    /\ \E d \in despawns : d.peer = 2
    /\ ServerPlayers(1) = {}
    /\ 2 \in connected
    /\ \E en \in ServerPlayers(2) : en.position # ZERO

=============================================================================
